---- MODULE Spec2Model ----
(***************************************************************************)
(* NanoAi JNI bridge for llama.cpp (app/src/main/cpp/llama_jni.cpp).       *)
(*                                                                         *)
(* The bridge keeps one process-wide session (g_model, g_ctx, g_params)    *)
(* behind g_mutex, and two atomics (g_is_generating, g_stop_requested)     *)
(* that are read and written without the mutex.  Every JNI entry point is  *)
(* an operation of the model; an entry point that holds the mutex over     *)
(* several accesses to the atomics or several engine calls is split into   *)
(* steps at those accesses.  The llama.cpp engine is modelled by the       *)
(* handles it has allocated and the KV cache of each context; the outcome  *)
(* of each engine call (load, context creation, decode, sampling) is a     *)
(* nondeterministic choice.                                                *)
(*                                                                         *)
(* Floats are kept in tenths (temperature 0.7 is 7).                       *)
(***************************************************************************)
EXTENDS Integers, Sequences, FiniteSets, TLC

\* ---------------------------------------------------------------- bounds
NumThreads   == 2   \* JVM threads calling into the bridge
MaxPromptLen == 2   \* longest text, in tokens without BOS
MaxGen       == 2   \* largest effective max_tokens of a generate() call
SmallCtx     == 6   \* the non-default context size passed to loadModel

\* ------------------------------------------------------- program constants
Null        == 0    \* nullptr, and "no owner" of g_mutex
CtxMargin   == 4    \* safety margin of the prompt length check
RegularTok  == 0    \* a vocabulary id whose piece is one byte
BosId       == 1    \* llama_token_bos: piece is empty
EosId       == 2    \* llama_token_eos: piece is empty
NVocab      == 3    \* llama_n_vocab

Threads == 1..NumThreads
Vocab   == 0..(NVocab - 1)

\* struct GenerationParams with its default member initialisers
GenerationParams ==
    [max_tokens |-> 512, temperature |-> 7, top_p |-> 9, top_k |-> 40,
     repeat_penalty |-> 11, n_threads |-> 4, n_ctx |-> 2048]

\* ------------------------------------------------------------------ inputs
\* A text is its length in bytes and the tokens the engine's vocabulary gives
\* it (without BOS).  A text may be shorter in bytes than in tokens (the
\* tokenizer's leading-space piece), which is what makes the first
\* llama_tokenize call report an undersized buffer.
PromptToks(n) == [i \in 1..n |-> RegularTok]
Texts ==
    {[len |-> n, toks |-> PromptToks(n)] : n \in 0..MaxPromptLen} \cup
    {[len |-> MaxPromptLen - 1, toks |-> PromptToks(MaxPromptLen)]}

\* models a file can hold: with embeddings and BOS, or with neither
ModelKinds == {[n_embd |-> 2, has_bos |-> TRUE], [n_embd |-> 0, has_bos |-> FALSE]}

CtxArgs    == {0, SmallCtx}        \* nCtx of loadModel (0: use the default)
ThreadArgs == {0, 2}               \* nThreads of loadModel and setThreads

Sentinels == [maxTokens |-> 0, temperature |-> -1, topP |-> 0, topK |-> 0,
              repeatPenalty |-> 0]
Overrides == [maxTokens |-> MaxGen, temperature |-> 0, topP |-> 10, topK |-> 2,
              repeatPenalty |-> 10]
\* arguments of generate(): any maxTokens with the rest sentinel, or all set
GenArgs   == {[Sentinels EXCEPT !.maxTokens = n] : n \in 0..MaxGen} \cup {Overrides}
\* arguments of setDefaultParams()
ParamArgs == {Sentinels, Overrides}

\* what llama_get_embeddings can yield for a model of dimension n
EmbdBuffers(n) == IF n = 2 THEN {<<0, 0>>, <<3, 4>>} ELSE {<<>>}
DetokInputs == {<<>>, <<RegularTok>>, <<BosId, RegularTok, EosId>>}

\* ------------------------------------------------------------------- state
VARIABLES
    mutex,               \* g_mutex: Null or the thread holding it
    g_model,             \* llama_model*  (Null or a model id)
    g_ctx,               \* llama_context* (Null or a context id)
    g_is_generating,     \* std::atomic<bool>
    g_stop_requested,    \* std::atomic<bool>
    g_params,            \* GenerationParams
    backend_initialized, \* static bool of loadModel
    backend_up,          \* engine: llama_backend_init without llama_backend_free
    models,              \* engine: live models, id -> [n_embd, has_bos]
    ctxs,                \* engine: live contexts, id -> [model, n_ctx, n_threads, kv]
                         \*   (and history under RepeatSpec: first, see NoteFirst)
    pc,                  \* per thread: where it is in its JNI call
    loc,                 \* per thread: locals of its JNI call (and its history)
    ret                  \* per thread: the value its call is about to return

vars == <<mutex, g_model, g_ctx, g_is_generating, g_stop_requested, g_params,
          backend_initialized, backend_up, models, ctxs, pc, loc, ret>>

session == <<g_model, g_ctx, g_params>>
flags   == <<g_is_generating, g_stop_requested>>
engine  == <<backend_initialized, backend_up, models, ctxs>>

\* ------------------------------------------------------------ return values
NoRet == [kind |-> "none", b |-> FALSE, n |-> 0, msg |-> "", toks |-> <<>>,
          text |-> <<>>, vec |-> <<>>]
RetVoid       == [NoRet EXCEPT !.kind = "void"]
RetBool(x)    == [NoRet EXCEPT !.kind = "bool", !.b = x]
RetInt(x)     == [NoRet EXCEPT !.kind = "int", !.n = x]
RetError(m)   == [NoRet EXCEPT !.kind = "error", !.msg = m]
RetText(s, x) == [NoRet EXCEPT !.kind = "text", !.toks = s, !.text = x]
RetAbsent     == [NoRet EXCEPT !.kind = "absent"]
RetVector(v)  == [NoRet EXCEPT !.kind = "vector", !.vec = v]

\* locals of a call; the fields after "history" are not in the code: they
\* record what happened during the call, for the properties below
NoLocals ==
    [text |-> [len |-> 0, toks |-> <<>>], args |-> Sentinels,
     nCtx |-> 0, nThreads |-> 0,
     tokens |-> <<>>, n_cur |-> 0, i |-> 0, max_gen |-> 0, temp |-> 0,
     top_p_val |-> 0, top_k_val |-> 0, rep_pen |-> 0, generated |-> <<>>,
     \* history
     params0 |-> GenerationParams, drawn |-> <<>>, n_decode |-> 0, n_clear |-> 0,
     fresh |-> Null, had |-> FALSE, stop_early |-> FALSE, stop_window |-> FALSE,
     stop_seen |-> FALSE, dec_after_stop |-> 0, fail |-> "none",
     stop_read |-> FALSE, eos_drawn |-> FALSE, calls |-> <<>>,
     h0 |-> <<Null, Null>>, reinit |-> FALSE]

Init ==
    /\ mutex = Null
    /\ g_model = Null
    /\ g_ctx = Null
    /\ g_is_generating = FALSE
    /\ g_stop_requested = FALSE
    /\ g_params = GenerationParams
    /\ backend_initialized = FALSE
    /\ backend_up = FALSE
    /\ models = <<>>
    /\ ctxs = <<>>
    /\ pc = [t \in Threads |-> "idle"]
    /\ loc = [t \in Threads |-> NoLocals]
    /\ ret = [t \in Threads |-> NoRet]

\* std::min
Min(a, b) == IF a < b THEN a ELSE b

\* ------------------------------------------------------------------ engine
\* the id the engine gives its next allocation: the lowest one not live
NewId(f) == CHOOSE i \in 1..(Cardinality(DOMAIN f) + 1) :
                i \notin DOMAIN f /\ \A j \in 1..(i - 1) : j \in DOMAIN f
Without(f, k) == [x \in DOMAIN f \ {k} |-> f[x]]
With(f, k, v) == [x \in DOMAIN f \cup {k} |-> IF x = k THEN v ELSE f[x]]

\* llama_free(c), llama_free_model(m): the engine's side of a release
llama_free(c)       == ctxs' = Without(ctxs, c)
llama_free_model(m) == models' = Without(models, m)

\* ------------------------------------------------------------------ thread
\* Threads carry no state between calls, so they are interchangeable: the
\* next call is made by the lowest-numbered thread that is not inside one.
Caller(t) == pc[t] = "idle" /\ \A u \in Threads : u < t => pc[u] # "idle"

\* std::lock_guard<std::mutex> lock(g_mutex): a call starts by taking the mutex
lock_guard(t) == Caller(t) /\ mutex = Null /\ mutex' = t

Goto(t, label)    == pc' = [pc EXCEPT ![t] = label]
Return(t, label, r) == /\ pc' = [pc EXCEPT ![t] = label]
                       /\ ret' = [ret EXCEPT ![t] = r]

RetPcs == {"loadModel_ret", "unloadModel_ret", "isModelLoaded_ret", "generate_ret",
           "getEmbedding_ret", "setThreads_ret", "setDefaultParams_ret",
           "getContextSize_ret", "getVocabSize_ret", "getEmbeddingSize_ret",
           "getModelDescription_ret", "freeBackend_ret", "tokenize_ret",
           "detokenize_ret"}

\* the return of a call that took the mutex: the lock_guard's destructor
lock_guard_release(t) ==
    /\ pc[t] \in RetPcs
    /\ mutex' = Null
    /\ pc' = [pc EXCEPT ![t] = "idle"]
    /\ loc' = [loc EXCEPT ![t] = NoLocals]
    /\ ret' = [ret EXCEPT ![t] = NoRet]
    /\ UNCHANGED <<session, flags, engine>>

\* -------------------------------------------------------- model management
\* "if (g_ctx) { llama_free(g_ctx); g_ctx = nullptr; }"
FreeCtx == IF g_ctx # Null
           THEN llama_free(g_ctx) /\ g_ctx' = Null
           ELSE UNCHANGED <<ctxs, g_ctx>>
\* "if (g_model) { llama_free_model(g_model); g_model = nullptr; }"
FreeModel == IF g_model # Null
             THEN llama_free_model(g_model) /\ g_model' = Null
             ELSE UNCHANGED <<models, g_model>>

\* history only, kept with the context: the tokens returned by the first
\* generate() on this context that was the reference request (ReferenceText
\* with every parameter set and temperature 0) and ended without a stop
\* request and without a failed decode
NoFirst == [set |-> FALSE, toks |-> <<>>]
ReferenceText == [len |-> 1, toks |-> PromptToks(1)]

\* the value isModelLoaded computes, line 225
\* (faulty variant: the context test inverted)
IsLoaded_Inverted(m, c) == m # Null /\ c = Null
IsLoaded(m, c) == m # Null /\ c # Null

\* loadModel, lines 136-142: take the mutex, release the old context
loadModel(t) ==
    \E nCtx \in CtxArgs, nThreads \in ThreadArgs :
        /\ lock_guard(t)
        /\ FreeCtx
        /\ Goto(t, "loadModel_free_model")
        /\ loc' = [loc EXCEPT ![t] = [NoLocals EXCEPT !.nCtx = nCtx,
                                       !.nThreads = nThreads, !.params0 = g_params,
                                       !.had = IsLoaded(g_model, g_ctx)]]
        /\ UNCHANGED <<g_model, g_params, flags, backend_initialized, backend_up,
                       models, ret>>

\* loadModel, lines 143-146: release the old model
loadModel_free_model(t) ==
    /\ pc[t] = "loadModel_free_model"
    /\ FreeModel
    /\ Goto(t, "loadModel_load")
    /\ UNCHANGED <<mutex, g_ctx, g_params, flags, backend_initialized, backend_up,
                   ctxs, loc, ret>>

\* loadModel, lines 148-172: backend initialisation (once), then the engine
\* loads the file or fails (history: reinit, llama_backend_init was called
\* on a backend that was up)
loadModel_load(t) ==
    /\ pc[t] = "loadModel_load"
    /\ IF ~backend_initialized
       THEN backend_up' = TRUE /\ backend_initialized' = TRUE
       ELSE UNCHANGED <<backend_up, backend_initialized>>
    /\ LET reinit == ~backend_initialized /\ backend_up
       IN \/ \E kind \in ModelKinds :
               LET m == NewId(models) IN
               /\ models' = With(models, m, kind)
               /\ g_model' = m
               /\ loc' = [loc EXCEPT ![t].fresh = m, ![t].reinit = reinit]
               /\ Goto(t, "loadModel_context")
               /\ UNCHANGED ret
          \/ /\ Return(t, "loadModel_ret", RetBool(FALSE))
             /\ loc' = [loc EXCEPT ![t].fail = "load", ![t].reinit = reinit]
             /\ UNCHANGED <<models, g_model>>
    /\ UNCHANGED <<mutex, g_ctx, g_params, flags, ctxs>>

\* loadModel, lines 183-188: without a context the model just loaded is
\* released and the call fails
\* (faulty variant: the model is kept)
ContextFailed_KeepModel(t) ==
    /\ Return(t, "loadModel_ret", RetBool(FALSE))
    /\ loc' = [loc EXCEPT ![t].fail = "context"]
    /\ UNCHANGED <<models, g_model, ctxs, g_ctx, g_params>>
ContextFailed(t) ==
    /\ llama_free_model(g_model)
    /\ g_model' = Null
    /\ Return(t, "loadModel_ret", RetBool(FALSE))
    /\ loc' = [loc EXCEPT ![t].fail = "context"]
    /\ UNCHANGED <<ctxs, g_ctx, g_params>>

\* loadModel, lines 174-197: the engine creates the context or fails; on
\* success g_params is updated
loadModel_context(t) ==
    /\ pc[t] = "loadModel_context"
    /\ LET n_ctx     == IF loc[t].nCtx > 0 THEN loc[t].nCtx ELSE g_params.n_ctx
           n_threads == IF loc[t].nThreads > 0 THEN loc[t].nThreads
                                               ELSE g_params.n_threads
       IN \/ LET c == NewId(ctxs) IN
             /\ ctxs' = With(ctxs, c, [model |-> g_model, n_ctx |-> n_ctx,
                                       n_threads |-> n_threads, kv |-> <<>>,
                                       first |-> NoFirst])
             /\ g_ctx' = c
             /\ g_params' = [g_params EXCEPT !.n_ctx = n_ctx, !.n_threads = n_threads]
             /\ Return(t, "loadModel_ret", RetBool(TRUE))
             /\ UNCHANGED <<models, g_model, loc>>
          \/ ContextFailed(t)
    /\ UNCHANGED <<mutex, flags, backend_initialized, backend_up>>

\* unloadModel, lines 205-212: take the mutex, release the context
\* (faulty variant: the first block releases the model instead)
unloadModel_ModelFirst(t) ==
    /\ lock_guard(t)
    /\ FreeModel
    /\ Goto(t, "unloadModel_free_model")
    /\ UNCHANGED <<g_ctx, g_params, flags, backend_initialized, backend_up,
                   ctxs, loc, ret>>
unloadModel(t) ==
    /\ lock_guard(t)
    /\ FreeCtx
    /\ Goto(t, "unloadModel_free_model")
    /\ UNCHANGED <<g_model, g_params, flags, backend_initialized, backend_up,
                   models, loc, ret>>

\* unloadModel, lines 213-217: release the model
unloadModel_free_model(t) ==
    /\ pc[t] = "unloadModel_free_model"
    /\ FreeModel
    /\ Return(t, "unloadModel_ret", RetVoid)
    /\ UNCHANGED <<mutex, g_ctx, g_params, flags, backend_initialized, backend_up,
                   ctxs, loc>>

\* isModelLoaded, lines 224-225
isModelLoaded(t) ==
    /\ lock_guard(t)
    /\ Return(t, "isModelLoaded_ret", RetBool(IsLoaded(g_model, g_ctx)))
    /\ UNCHANGED <<session, flags, engine, loc>>

\* freeBackend, lines 570-575: take the mutex, release the context
freeBackend(t) ==
    /\ lock_guard(t)
    /\ FreeCtx
    /\ Goto(t, "freeBackend_free_model")
    /\ UNCHANGED <<g_model, g_params, flags, backend_initialized, backend_up,
                   models, loc, ret>>

\* freeBackend, lines 576-583: release the model, then llama_backend_free();
\* the static backend_initialized of loadModel is not reset
freeBackend_free_model(t) ==
    /\ pc[t] = "freeBackend_free_model"
    /\ FreeModel
    /\ backend_up' = FALSE
    /\ Return(t, "freeBackend_ret", RetVoid)
    /\ UNCHANGED <<mutex, g_ctx, g_params, flags, backend_initialized, ctxs, loc>>

\* ---------------------------------------------------- lock-free operations
GenPcs == {"generate_clear", "generate_loop", "generate_step", "generate_end"}

\* history only: what a stopGeneration() call means to the generate() call
\* at p with locals l.  stop_early: no token drawn yet; stop_window: after the
\* reset of line 251 and before the first evaluation of line 306 (on an error
\* exit of lines 258-290 that evaluation never comes); stop_seen: after line 250
NoteStop(l, p) ==
    IF p = "generate_ret"
    THEN [l EXCEPT
            !.stop_early  = @ \/ l.drawn = <<>>,
            !.stop_window = @ \/ l.fail \in {"tokenize", "too_long", "prefill"}]
    ELSE IF p \notin GenPcs THEN l
    ELSE [l EXCEPT
            !.stop_early  = @ \/ (l.drawn = <<>> /\ p # "generate_end"),
            !.stop_window = @ \/ (p = "generate_loop" /\ l.i = 0),
            !.stop_seen   = TRUE]

\* stopGeneration, lines 360-367: one atomic store, no mutex
\* (faulty variant: waits for the mutex)
stopGeneration_Locked(t) ==
    /\ Caller(t)
    /\ mutex = Null
    /\ g_stop_requested' = TRUE
    /\ loc' = [u \in Threads |-> NoteStop(loc[u], pc[u])]
    /\ UNCHANGED <<mutex, session, g_is_generating, engine, pc, ret>>
stopGeneration(t) ==
    /\ Caller(t)
    /\ g_stop_requested' = TRUE
    /\ loc' = [u \in Threads |-> NoteStop(loc[u], pc[u])]
    /\ UNCHANGED <<mutex, session, g_is_generating, engine, pc, ret>>

\* isGenerating, lines 369-375: one atomic load, no mutex; the call returns
\* IsGeneratingResult and writes nothing
IsGeneratingResult == g_is_generating
isGenerating(t) ==
    /\ Caller(t)
    /\ IsGeneratingResult \in BOOLEAN
    /\ UNCHANGED vars

\* get_available_memory, lines 70-85: MemAvailable of /proc/meminfo in bytes,
\* 0 when the file cannot be read
AvailableMemory == {kb * 1024 : kb \in {0, 1}}
\* getAvailableMemory, lines 557-563: no mutex; the call returns one of
\* AvailableMemory and writes nothing
getAvailableMemory(t) ==
    /\ Caller(t)
    /\ AvailableMemory # {}
    /\ UNCHANGED vars

\* ------------------------------------------------------------ token codec
\* llama_tokenize(model, text, buffer of cap tokens, add_bos): the number of
\* tokens written, or minus the number needed when the buffer is too small
llama_tokenize(m, text, cap, add_bos) ==
    LET out == (IF add_bos /\ models[m].has_bos THEN <<BosId>> ELSE <<>>) \o text.toks
    IN IF Len(out) > cap THEN [n |-> -Len(out), toks |-> <<>>]
                         ELSE [n |-> Len(out), toks |-> out]

\* tokenize, lines 88-105: one retry with the buffer resized to the reported size
tokenize(text, add_bos) ==
    IF g_model = Null THEN <<>>
    ELSE LET cap == text.len + (IF add_bos THEN 1 ELSE 0)
             r1  == llama_tokenize(g_model, text, cap, add_bos)
             r2  == IF r1.n < 0 THEN llama_tokenize(g_model, text, -r1.n, add_bos)
                                ELSE r1
         IN SubSeq(r2.toks, 1, r2.n)

\* llama_token_to_piece(model, token, buf, 256, false): control tokens render
\* as nothing
llama_token_to_piece(tok) == IF tok = RegularTok THEN <<"a">> ELSE <<>>

\* detokenize, lines 108-120: the pieces of the tokens, appended when n > 0
RECURSIVE Pieces(_)
Pieces(tokens) ==
    IF tokens = <<>> THEN <<>>
    ELSE LET piece == llama_token_to_piece(Head(tokens))
         IN (IF Len(piece) > 0 THEN piece ELSE <<>>) \o Pieces(Tail(tokens))
detokenize(tokens) == IF g_model = Null THEN <<>> ELSE Pieces(tokens)

\* ---------------------------------------------------------- batch decoder
\* lines 274-283 (and 406-415): every token of the prompt at positions 0..n-1,
\* logits wanted for the last one only
PrefillBatch(tokens) ==
    [k \in 1..Len(tokens) |->
        [token |-> tokens[k], pos |-> k - 1, logits |-> (k = Len(tokens))]]
\* lines 333-339: one token at position n_cur, logits wanted
\* (faulty variant: the position of the token before)
StepBatch_PrevPos(token, n_cur) ==
    <<[token |-> token, pos |-> n_cur - 1, logits |-> TRUE]>>
StepBatch(token, n_cur) == <<[token |-> token, pos |-> n_cur, logits |-> TRUE]>>

\* the KV cache after a successful llama_decode of the batch
DecodedKv(kv, batch) ==
    SubSeq(kv, 1, batch[1].pos) \o [k \in 1..Len(batch) |-> batch[k].token]

\* ---------------------------------------------------------------- sampling
\* history only: one engine call made on the context by generate()
EngineCall(op, arg, batch, ok) == [op |-> op, arg |-> arg, batch |-> batch, ok |-> ok]

\* llama_get_logits, line 308: the scores of the last decoded position, a
\* fixed function of the sequence the context has decoded
Logits(kv) == [tok \in Vocab |-> 2 * ((tok + Len(kv)) % NVocab)]

\* lines 311-316: one candidate per vocabulary id, in id order; the score is
\* kept as logit / den
Candidates(logits) ==
    [k \in 1..NVocab |-> [id |-> k - 1, logit |-> logits[k - 1], den |-> 1]]

\* the candidates by descending score, as llama_sample_top_k and
\* llama_sample_top_p order them
SortedByLogit(cands) ==
    LET S == {cands[k] : k \in 1..Len(cands)}
    IN [k \in 1..Len(cands) |->
           CHOOSE x \in S : Cardinality({y \in S : y.logit > x.logit}) = k - 1]

\* llama_sample_top_k(ctx, &candidates_p, k, 1): the k best, at least one
llama_sample_top_k(cands, k) ==
    LET keep == Min(IF k < 1 THEN 1 ELSE k, Len(cands))
    IN SubSeq(SortedByLogit(cands), 1, keep)

RECURSIVE Pow2(_)
Pow2(n) == IF n <= 0 THEN 1 ELSE 2 * Pow2(n - 1)
\* the softmax weight of a candidate, up to a common factor (scores that a
\* division by zero has spoilt weigh the same)
Weight(cand) == IF cand.den = 0 THEN 1 ELSE Pow2(cand.logit \div cand.den)
RECURSIVE Mass(_, _)
Mass(cands, n) == IF n = 0 THEN 0 ELSE Weight(cands[n]) + Mass(cands, n - 1)

\* llama_sample_top_p(ctx, &candidates_p, p, 1), p in tenths: the shortest
\* prefix of the sorted candidates whose probability reaches p; all of them
\* when p >= 1
llama_sample_top_p(cands, p) ==
    IF p >= 10 THEN cands
    ELSE LET sorted == SortedByLogit(cands)
             last   == CHOOSE n \in 1..Len(sorted) :
                          /\ (10 * Mass(sorted, n) >= p * Mass(sorted, Len(sorted))
                               \/ n = Len(sorted))
                          /\ \A m \in 1..(n - 1) :
                                10 * Mass(sorted, m) < p * Mass(sorted, Len(sorted))
         IN SubSeq(sorted, 1, last)

\* llama_sample_temp(ctx, &candidates_p, temp), temp in tenths: every score
\* divided by temp (a den of 0 is a division by zero)
llama_sample_temp(cands, temp) ==
    [k \in 1..Len(cands) |-> [cands[k] EXCEPT !.logit = 10 * @, !.den = temp * @]]

\* llama_sample_token(ctx, &candidates_p): a random draw among the candidates
\* left, by the context's generator (seeded from the clock at line 179)
llama_sample_token(cands) == {cands[k].id : k \in 1..Len(cands)}

\* lines 319-321: the three calls that shape the candidates, in program order
\* (faulty variant: temperature scaling before the filters)
SamplingCalls_TempFirst(top_k_val, top_p_val, temp) ==
    <<EngineCall("llama_sample_temp", temp, <<>>, TRUE),
      EngineCall("llama_sample_top_k", top_k_val, <<>>, TRUE),
      EngineCall("llama_sample_top_p", top_p_val, <<>>, TRUE)>>
SamplingCalls(top_k_val, top_p_val, temp) ==
    <<EngineCall("llama_sample_top_k", top_k_val, <<>>, TRUE),
      EngineCall("llama_sample_top_p", top_p_val, <<>>, TRUE),
      EngineCall("llama_sample_temp", temp, <<>>, TRUE)>>

\* the engine's work for one of those calls
ApplyCall(cands, call) ==
    IF call.op = "llama_sample_top_k" THEN llama_sample_top_k(cands, call.arg)
    ELSE IF call.op = "llama_sample_top_p" THEN llama_sample_top_p(cands, call.arg)
    ELSE llama_sample_temp(cands, call.arg)
\* the candidates after the calls, each working on the result of the one before
ApplyCalls(cands, calls) ==
    CHOOSE c3 \in {ApplyCall(c2, calls[3]) :
                      c2 \in {ApplyCall(c1, calls[2]) :
                                 c1 \in {ApplyCall(cands, calls[1])}}} : TRUE

\* ------------------------------------------------------------ text generation
\* "x > 0 ? x : default" of lines 295-299 (and 176-177)
\* (faulty variant: >= for >)
Effective_ZeroKept(x, dflt) == IF x >= 0 THEN x ELSE dflt
Effective(x, dflt) == IF x > 0 THEN x ELSE dflt
\* "temperature >= 0 ? temperature : default" of line 296
EffectiveTemp(x, dflt) == IF x >= 0 THEN x ELSE dflt

\* the loop condition of line 306
\* (faulty variant: the flag is not read)
LoopCond_NoStop(i, max_gen, stop_requested) == i < max_gen
\* (faulty variant: <= for <)
LoopCond_OneMore(i, max_gen, stop_requested) == i <= max_gen /\ ~stop_requested
LoopCond(i, max_gen, stop_requested) == i < max_gen /\ ~stop_requested

\* the prompt length check of line 264
\* (faulty variant: >= for >)
TooLong_AtLimit(n_tokens, n_ctx) == n_tokens >= n_ctx - CtxMargin
TooLong(n_tokens, n_ctx) == n_tokens > n_ctx - CtxMargin

\* the error exits of lines 259-260, 265-267 and 286-289:
\* g_is_generating = false, then return the message
\* (faulty variant: the flag is left set)
FailGenerate_StillGenerating(t, l, why, msg) ==
    /\ UNCHANGED g_is_generating
    /\ Return(t, "generate_ret", RetError(msg))
    /\ loc' = [loc EXCEPT ![t] = [l EXCEPT !.fail = why]]
FailGenerate(t, l, why, msg) ==
    /\ g_is_generating' = FALSE
    /\ Return(t, "generate_ret", RetError(msg))
    /\ loc' = [loc EXCEPT ![t] = [l EXCEPT !.fail = why]]

\* lines 322-330: a token that is not EOS is appended to generated
\* (faulty variant: push_back forgotten)
AfterDraw_NoPush(l, new_token) == [l EXCEPT !.drawn = Append(@, new_token)]
AfterDraw(l, new_token) == [l EXCEPT !.generated = Append(@, new_token),
                                     !.drawn = Append(@, new_token)]

\* line 325: "new_token == llama_token_eos(g_model)"
\* (faulty variant: compared with the BOS token)
IsEos_Bos(new_token) == new_token = BosId
IsEos(new_token) == new_token = EosId

\* generate, lines 243-250: take the mutex; without a session return the
\* error, else g_is_generating = true
\* (faulty variant: the test of the handles forgotten)
generate_Unchecked(t) ==
    \E text \in Texts, a \in GenArgs :
        /\ Effective(a.maxTokens, g_params.max_tokens) <= MaxGen
        /\ lock_guard(t)
        /\ loc' = [loc EXCEPT ![t] = [NoLocals EXCEPT !.text = text, !.args = a]]
        /\ g_is_generating' = TRUE
        /\ Goto(t, "generate_clear")
        /\ UNCHANGED <<session, g_stop_requested, engine, ret>>
generate(t) ==
    \E text \in Texts, a \in GenArgs :
        /\ Effective(a.maxTokens, g_params.max_tokens) <= MaxGen
        /\ lock_guard(t)
        /\ loc' = [loc EXCEPT ![t] = [NoLocals EXCEPT !.text = text, !.args = a]]
        /\ IF g_model = Null \/ g_ctx = Null
           THEN /\ Return(t, "generate_ret", RetError("Model not loaded"))
                /\ UNCHANGED g_is_generating
           ELSE /\ g_is_generating' = TRUE
                /\ Goto(t, "generate_clear")
                /\ UNCHANGED ret
        /\ UNCHANGED <<session, g_stop_requested, engine>>

\* generate, lines 251-304: g_stop_requested = false, then tokenize the
\* prompt, check its length, clear the KV cache, decode the prompt in one
\* batch and resolve the effective parameters (prompt_str is not read again)
generate_clear(t) ==
    /\ pc[t] = "generate_clear"
    /\ g_stop_requested' = FALSE
    /\ LET tokens == tokenize(loc[t].text, TRUE)
           n_ctx  == ctxs[g_ctx].n_ctx
           l      == [loc[t] EXCEPT !.text = NoLocals.text, !.tokens = tokens]
           batch  == PrefillBatch(tokens)
           seen   == [l EXCEPT !.n_clear = @ + 1, !.n_decode = @ + 1,
                               !.dec_after_stop = @ + (IF l.stop_seen THEN 1 ELSE 0),
                               !.calls = <<EngineCall("llama_kv_cache_clear", 0, <<>>, TRUE)>>]
           Decoded(ok) == [seen EXCEPT !.calls =
                              Append(@, EngineCall("llama_decode", 0, batch, ok))]
       IN IF tokens = <<>>
          THEN /\ FailGenerate(t, l, "tokenize", "Failed to tokenize")
               /\ UNCHANGED ctxs
          ELSE IF TooLong(Len(tokens), n_ctx)
          THEN /\ FailGenerate(t, l, "too_long", "Prompt too long")
               /\ UNCHANGED ctxs
          ELSE \/ \* llama_decode succeeds
                  /\ ctxs' = [ctxs EXCEPT ![g_ctx].kv = DecodedKv(<<>>, batch)]
                  /\ loc' = [loc EXCEPT ![t] =
                       [Decoded(TRUE) EXCEPT
                          !.max_gen   = Effective(l.args.maxTokens, g_params.max_tokens),
                          !.temp      = EffectiveTemp(l.args.temperature,
                                                      g_params.temperature),
                          !.top_p_val = Effective(l.args.topP, g_params.top_p),
                          !.top_k_val = Effective(l.args.topK, g_params.top_k),
                          !.rep_pen   = Effective(l.args.repeatPenalty,
                                                  g_params.repeat_penalty),
                          !.n_cur     = Len(tokens)]]
                  /\ Goto(t, "generate_loop")
                  /\ UNCHANGED <<g_is_generating, ret>>
               \/ \* llama_decode fails: the cache stays cleared
                  /\ ctxs' = [ctxs EXCEPT ![g_ctx].kv = <<>>]
                  /\ FailGenerate(t, Decoded(FALSE), "prefill", "Decode failed")
    /\ UNCHANGED <<mutex, session, backend_initialized, backend_up, models>>

\* generate, line 306: the loop condition, which reads g_stop_requested
\* when i < max_gen (history: stop_read, the flag as this evaluation read it)
generate_loop(t) ==
    /\ pc[t] = "generate_loop"
    /\ IF LoopCond(loc[t].i, loc[t].max_gen, g_stop_requested)
       THEN Goto(t, "generate_step")
       ELSE Goto(t, "generate_end")
    /\ loc' = [loc EXCEPT ![t].stop_read =
                   loc[t].i < loc[t].max_gen /\ g_stop_requested]
    /\ UNCHANGED <<mutex, session, flags, engine, ret>>

\* generate, lines 308-348: the candidates are built from the scores, shaped
\* by the three sampling calls, and a token is drawn; EOS ends the loop, any
\* other token is appended to generated and decoded at position n_cur; a
\* failed decode ends the loop
generate_step(t) ==
    /\ pc[t] = "generate_step"
    /\ LET logits   == Logits(ctxs[g_ctx].kv)
           shaping  == SamplingCalls(loc[t].top_k_val, loc[t].top_p_val, loc[t].temp)
           Drew(tk) == [loc[t] EXCEPT
                           !.eos_drawn = (tk = EosId),
                           !.calls = @ \o <<EngineCall("llama_get_logits", 0, <<>>, TRUE)>>
                                       \o shaping
                                       \o <<EngineCall("llama_sample_token", tk, <<>>, TRUE)>>]
       IN \E cands \in {ApplyCalls(Candidates(logits), shaping)} :
          \E new_token \in llama_sample_token(cands) :
          IF IsEos(new_token)
          THEN /\ Goto(t, "generate_end")
               /\ loc' = [loc EXCEPT ![t] = Drew(new_token)]
               /\ UNCHANGED ctxs
          ELSE LET l     == AfterDraw(Drew(new_token), new_token)
                   batch == StepBatch(new_token, l.n_cur)
                   seen  == [l EXCEPT !.n_decode = @ + 1,
                                !.dec_after_stop = @ + (IF l.stop_seen THEN 1 ELSE 0)]
                   Decoded(ok) == [seen EXCEPT !.calls =
                                      Append(@, EngineCall("llama_decode", 0, batch, ok))]
               IN \/ \* llama_decode succeeds
                     /\ ctxs' = [ctxs EXCEPT ![g_ctx].kv = DecodedKv(@, batch)]
                     /\ loc' = [loc EXCEPT ![t] =
                                   [Decoded(TRUE) EXCEPT !.n_cur = @ + 1, !.i = @ + 1]]
                     /\ Goto(t, "generate_loop")
                  \/ \* llama_decode fails
                     /\ loc' = [loc EXCEPT ![t] = [Decoded(FALSE) EXCEPT !.fail = "step"]]
                     /\ Goto(t, "generate_end")
                     /\ UNCHANGED ctxs
    /\ UNCHANGED <<mutex, session, flags, backend_initialized, backend_up, models,
                   ret>>

\* whether the call with locals l was the reference request, undisturbed
IsReference(l) ==
    /\ l.args = Overrides
    /\ l.tokens = tokenize(ReferenceText, TRUE)
    /\ ~l.stop_seen /\ ~l.stop_read /\ l.fail = "none"
NoteFirst(c, l) ==
    IF IsReference(l) /\ ~c.first.set
    THEN [c EXCEPT !.first = [set |-> TRUE, toks |-> l.generated]]
    ELSE c

\* generate, lines 350-357: g_is_generating = false, return the text of generated
generate_end(t) ==
    /\ pc[t] = "generate_end"
    /\ g_is_generating' = FALSE
    /\ Return(t, "generate_ret",
              RetText(loc[t].generated, detokenize(loc[t].generated)))
    /\ UNCHANGED <<mutex, session, g_stop_requested, engine, loc>>

\* the same step, with the history of NoteFirst kept
generate_end_noting(t) ==
    /\ pc[t] = "generate_end"
    /\ g_is_generating' = FALSE
    /\ Return(t, "generate_ret",
              RetText(loc[t].generated, detokenize(loc[t].generated)))
    /\ ctxs' = [ctxs EXCEPT ![g_ctx] = NoteFirst(@, loc[t])]
    /\ UNCHANGED <<mutex, session, g_stop_requested, backend_initialized,
                   backend_up, models, loc>>

\* ------------------------------------------------------------- embeddings
RECURSIVE SumSquares(_)
SumSquares(v) == IF v = <<>> THEN 0 ELSE Head(v) * Head(v) + SumSquares(Tail(v))
\* sqrtf, exact on the buffers of EmbdBuffers
Sqrtf(x) == CHOOSE r \in 0..x : r * r = x
\* lines 440-456: each component over the norm, kept as the pair
\* <<numerator, denominator>>; a denominator of 0 is a division by zero
Normalized(embd) ==
    LET norm == Sqrtf(SumSquares(embd))
    IN [k \in 1..Len(embd) |-> <<embd[k], norm>>]

\* the dimension test of line 427
\* (faulty variant: < for <=)
NoEmbedding_Negative(n_embd) == n_embd < 0
NoEmbedding(n_embd) == n_embd <= 0

\* getEmbedding, lines 387-404: take the mutex, check the session, tokenize,
\* clear the KV cache
getEmbedding(t) ==
    \E text \in Texts :
        LET Called(x) == [NoLocals EXCEPT !.text = x, !.h0 = <<g_model, g_ctx>>] IN
        /\ lock_guard(t)
        /\ IF g_model = Null \/ g_ctx = Null
           THEN /\ Return(t, "getEmbedding_ret", RetAbsent)
                /\ loc' = [loc EXCEPT ![t] = [Called(text) EXCEPT
                                                            !.fail = "unloaded"]]
                /\ UNCHANGED ctxs
           ELSE LET tokens == tokenize(text, TRUE) IN
                IF tokens = <<>>
                THEN /\ Return(t, "getEmbedding_ret", RetAbsent)
                     /\ loc' = [loc EXCEPT ![t] = [Called(text) EXCEPT
                                                                 !.fail = "tokenize"]]
                     /\ UNCHANGED ctxs
                ELSE /\ ctxs' = [ctxs EXCEPT ![g_ctx].kv = <<>>]
                     /\ loc' = [loc EXCEPT ![t] = [Called(text) EXCEPT
                                          !.tokens = tokens, !.n_clear = 1]]
                     /\ Goto(t, "getEmbedding_decode")
                     /\ UNCHANGED ret
        /\ UNCHANGED <<session, flags, backend_initialized, backend_up, models>>

\* getEmbedding, lines 406-459: decode the text in one batch, read the
\* embedding of the model's dimension, normalise it into a new float array
getEmbedding_decode(t) ==
    /\ pc[t] = "getEmbedding_decode"
    /\ LET l      == loc[t]
           batch  == PrefillBatch(l.tokens)
           n_embd == models[g_model].n_embd
           seen   == [l EXCEPT !.n_decode = @ + 1]
       IN \/ \* llama_decode fails
             /\ loc' = [loc EXCEPT ![t] = [seen EXCEPT !.fail = "prefill"]]
             /\ Return(t, "getEmbedding_ret", RetAbsent)
             /\ UNCHANGED ctxs
          \/ \* llama_decode succeeds
             /\ ctxs' = [ctxs EXCEPT ![g_ctx].kv = DecodedKv(@, batch)]
             /\ IF NoEmbedding(n_embd)
                THEN /\ loc' = [loc EXCEPT ![t] = [seen EXCEPT !.fail = "n_embd"]]
                     /\ Return(t, "getEmbedding_ret", RetAbsent)
                ELSE \/ \* llama_get_embeddings yields no buffer
                        /\ loc' = [loc EXCEPT ![t] = [seen EXCEPT !.fail = "no_buffer"]]
                        /\ Return(t, "getEmbedding_ret", RetAbsent)
                     \/ \* NewFloatArray fails
                        /\ loc' = [loc EXCEPT ![t] = [seen EXCEPT !.fail = "alloc"]]
                        /\ Return(t, "getEmbedding_ret", RetAbsent)
                     \/ \E embd \in EmbdBuffers(n_embd) :
                          /\ loc' = [loc EXCEPT ![t] = [seen EXCEPT !.drawn = embd]]
                          /\ Return(t, "getEmbedding_ret", RetVector(Normalized(embd)))
    /\ UNCHANGED <<mutex, session, flags, backend_initialized, backend_up, models>>

\* ------------------------------------------------------------ configuration
\* setThreads, lines 472-481
setThreads(t) ==
    \E nThreads \in ThreadArgs :
        /\ lock_guard(t)
        /\ IF nThreads > 0
           THEN /\ g_params' = [g_params EXCEPT !.n_threads = nThreads]
                /\ IF g_ctx # Null
                   THEN ctxs' = [ctxs EXCEPT ![g_ctx].n_threads = nThreads]
                   ELSE UNCHANGED ctxs
           ELSE UNCHANGED <<g_params, ctxs>>
        /\ Return(t, "setThreads_ret", RetVoid)
        /\ UNCHANGED <<g_model, g_ctx, flags, backend_initialized, backend_up,
                       models, loc>>

\* the five assignments of lines 495-499
NewDefaults(p, a) ==
    [p EXCEPT !.max_tokens     = IF a.maxTokens > 0 THEN a.maxTokens ELSE @,
              !.temperature    = IF a.temperature >= 0 THEN a.temperature ELSE @,
              !.top_p          = IF a.topP > 0 THEN a.topP ELSE @,
              !.top_k          = IF a.topK > 0 THEN a.topK ELSE @,
              !.repeat_penalty = IF a.repeatPenalty > 0 THEN a.repeatPenalty ELSE @]

\* setDefaultParams, lines 493-504
setDefaultParams(t) ==
    \E a \in ParamArgs :
        /\ lock_guard(t)
        /\ g_params' = NewDefaults(g_params, a)
        /\ Return(t, "setDefaultParams_ret", RetVoid)
        /\ UNCHANGED <<g_model, g_ctx, flags, engine, loc>>

\* ---------------------------------------------------------------- model info
\* getContextSize, lines 515-516
\* (faulty variant: no lock_guard)
getContextSize_NoLock(t) ==
    /\ Caller(t)
    /\ Return(t, "getContextSize_ret",
              RetInt(IF g_ctx # Null THEN ctxs[g_ctx].n_ctx ELSE 0))
    /\ UNCHANGED <<mutex, session, flags, engine, loc>>
getContextSize(t) ==
    /\ lock_guard(t)
    /\ Return(t, "getContextSize_ret",
              RetInt(IF g_ctx # Null THEN ctxs[g_ctx].n_ctx ELSE 0))
    /\ UNCHANGED <<session, flags, engine, loc>>

\* getVocabSize, lines 524-525
getVocabSize(t) ==
    /\ lock_guard(t)
    /\ Return(t, "getVocabSize_ret", RetInt(IF g_model # Null THEN NVocab ELSE 0))
    /\ UNCHANGED <<session, flags, engine, loc>>

\* getEmbeddingSize, lines 533-534
getEmbeddingSize(t) ==
    /\ lock_guard(t)
    /\ Return(t, "getEmbeddingSize_ret",
              RetInt(IF g_model # Null THEN models[g_model].n_embd ELSE 0))
    /\ UNCHANGED <<session, flags, engine, loc>>

\* getModelDescription, lines 542-551
getModelDescription(t) ==
    /\ lock_guard(t)
    /\ Return(t, "getModelDescription_ret",
              IF g_model = Null THEN RetError("No model loaded")
              ELSE RetText(<<>>, <<"desc", models[g_model].n_embd>>))
    /\ UNCHANGED <<session, flags, engine, loc>>

\* ------------------------------------------------------------ tokenization
\* LlamaBridge.tokenize, lines 597-613: the token count, and the first
\* min(output_len, count) tokens copied to the caller's array
jni_tokenize(t) ==
    \E text \in Texts, addBos \in BOOLEAN, output_len \in {0, MaxPromptLen + 1} :
        /\ lock_guard(t)
        /\ IF g_model = Null
           THEN Return(t, "tokenize_ret", RetInt(-1))
           ELSE LET tokens   == tokenize(text, addBos)
                    copy_len == Min(output_len, Len(tokens))
                IN Return(t, "tokenize_ret",
                          [RetInt(Len(tokens)) EXCEPT !.toks = SubSeq(tokens, 1, copy_len)])
        /\ UNCHANGED <<session, flags, engine, loc>>

\* LlamaBridge.detokenize, lines 621-633
jni_detokenize(t) ==
    \E tokens \in DetokInputs :
        /\ lock_guard(t)
        /\ Return(t, "detokenize_ret",
                  IF g_model = Null THEN RetText(<<>>, <<>>)
                  ELSE RetText(tokens, detokenize(tokens)))
        /\ UNCHANGED <<session, flags, engine, loc>>

\* ----------------------------------------------------------- specification
\* every step but the last one of generate()
OtherSteps(t) ==
        \/ loadModel(t) \/ loadModel_free_model(t) \/ loadModel_load(t)
        \/ loadModel_context(t)
        \/ unloadModel(t) \/ unloadModel_free_model(t)
        \/ isModelLoaded(t)
        \/ generate(t) \/ generate_clear(t) \/ generate_loop(t)
        \/ generate_step(t)
        \/ stopGeneration(t) \/ isGenerating(t)
        \/ getEmbedding(t) \/ getEmbedding_decode(t)
        \/ setThreads(t) \/ setDefaultParams(t)
        \/ getContextSize(t) \/ getVocabSize(t) \/ getEmbeddingSize(t)
        \/ getModelDescription(t)
        \/ getAvailableMemory(t)
        \/ freeBackend(t) \/ freeBackend_free_model(t)
        \/ jni_tokenize(t) \/ jni_detokenize(t)
        \/ lock_guard_release(t)

Next == \E t \in Threads : OtherSteps(t) \/ generate_end(t)

Spec == Init /\ [][Next]_vars

\* the bridge observed across requests: as Spec, and each context remembers
\* what its first reference request returned
NextNoting == \E t \in Threads : OtherSteps(t) \/ generate_end_noting(t)
RepeatSpec == Init /\ [][NextNoting]_vars

\* A thread inside generate() holds the mutex and is waiting for nothing: it
\* runs on, given that every engine call it makes (tokenize, decode, the
\* sampling calls) returns.
GenerateRuns ==
    \A t \in Threads :
        WF_vars(generate_clear(t) \/ generate_loop(t) \/ generate_step(t)
                \/ generate_end(t))
FairSpec == Spec /\ GenerateRuns

\* ---------------------------------------------------------------- properties
\* the calls that are between taking the mutex and returning
InCall == {t \in Threads : pc[t] # "idle"}

\* C1: isModelLoaded() returns true exactly when g_model and g_ctx are both
\* non-null, and when unloadModel() returns isModelLoaded() would return false.
C1_IsLoadedIffBothHandles ==
    \A t \in Threads :
        /\ pc[t] = "isModelLoaded_ret" =>
              (ret[t].b <=> (g_model # Null /\ g_ctx # Null))
        /\ pc[t] = "unloadModel_ret" => ~IsLoaded(g_model, g_ctx)

\* isModelLoaded() returns true on a loaded session
C1_Witness ==
    \E t \in Threads : pc[t] = "isModelLoaded_ret" /\ ret[t].b /\ g_ctx # Null

\* C2: the engine holds at most one model and one context, every live context
\* belongs to a live model (a model is never released before its contexts),
\* and every live handle is the one the session points to (nothing leaks).
C2_SinglePairNoLeak ==
    /\ Cardinality(DOMAIN models) <= 1
    /\ Cardinality(DOMAIN ctxs) <= 1
    /\ \A c \in DOMAIN ctxs : ctxs[c].model \in DOMAIN models
    /\ DOMAIN models \subseteq {g_model}
    /\ DOMAIN ctxs \subseteq {g_ctx}

\* loadModel() has replaced a live session by a new one
C2_Witness ==
    \E t \in Threads : pc[t] = "loadModel_ret" /\ ret[t].b /\ loc[t].had

\* C3: a loadModel() that returns false leaves no session: both handles are
\* null, the engine holds no model (the one just loaded was released) and no
\* context, and g_params.n_ctx and g_params.n_threads are what they were at
\* the call; whenever the mutex is free the two handles are both null or both
\* non-null.
C3_FailedLoadRollsBack ==
    /\ \A t \in Threads :
          pc[t] = "loadModel_ret" /\ ~ret[t].b =>
              /\ g_model = Null /\ g_ctx = Null
              /\ loc[t].fresh \notin DOMAIN models
              /\ DOMAIN models = {} /\ DOMAIN ctxs = {}
              /\ g_params.n_ctx = loc[t].params0.n_ctx
              /\ g_params.n_threads = loc[t].params0.n_threads
    /\ mutex = Null => ((g_model = Null) <=> (g_ctx = Null))

\* context creation failed in a loadModel() that replaced a live session and
\* asked for another context size and thread count
C3_Witness ==
    \E t \in Threads :
        /\ pc[t] = "loadModel_ret" /\ ~ret[t].b
        /\ loc[t].fail = "context" /\ loc[t].had /\ loc[t].fresh # Null
        /\ loc[t].nCtx > 0 /\ loc[t].nCtx # g_params.n_ctx
        /\ loc[t].nThreads > 0 /\ loc[t].nThreads # g_params.n_threads

\* C4: when no generate() call is between line 250 and its return,
\* g_is_generating is false.
C4_InProgressCleared ==
    (\A t \in Threads : pc[t] \notin GenPcs) => ~g_is_generating

\* generate() has returned through an error exit taken after line 250
C4_Witness ==
    \E t \in Threads :
        /\ pc[t] = "generate_ret" /\ ret[t].kind = "error"
        /\ loc[t].fail \in {"tokenize", "too_long", "prefill"}

\* C5 as stated: a stopGeneration() during a generate() call that has not yet
\* drawn a token makes the call return a zero-length sequence.
C5_StopBeforeFirstToken ==
    \A t \in Threads :
        pc[t] = "generate_ret" /\ loc[t].stop_early /\ ret[t].kind = "text" =>
            ret[t].toks = <<>>

\* C5, amended: a stopGeneration() after generate() has reset
\* g_stop_requested (line 251) and before it first evaluates the loop
\* condition (line 306) makes the call draw no token and return a zero-length
\* sequence, unless it returns one of its errors.
C5_StopBeforeFirstCheck ==
    \A t \in Threads :
        loc[t].stop_window =>
            /\ loc[t].drawn = <<>>
            /\ pc[t] # "generate_step"
            /\ pc[t] = "generate_ret" =>
                  ret[t].kind = "error" \/ ret[t] = RetText(<<>>, <<>>)

\* such a call, allowed at least one token, has returned
C5_Witness ==
    \E t \in Threads :
        /\ pc[t] = "generate_ret" /\ loc[t].stop_window
        /\ loc[t].max_gen > 0 /\ ret[t].kind = "text"

\* C6 as stated: after a stopGeneration() made once generate() has set
\* g_is_generating, the call invokes llama_decode at most once more and
\* returns with g_is_generating false.
C6_AtMostOneMoreDecode ==
    \A t \in Threads :
        loc[t].stop_seen =>
            /\ loc[t].dec_after_stop <= 1
            /\ pc[t] = "generate_ret" => ~g_is_generating

\* C7: a generate() on a loaded session whose prompt has more than n_ctx - 4
\* tokens returns the prompt-too-long error without any llama_decode or
\* llama_kv_cache_clear and with g_is_generating false; a prompt of exactly
\* n_ctx - 4 tokens is accepted: the cache is cleared and the prompt decoded.
C7_PromptTooLong ==
    \A t \in Threads :
        pc[t] = "generate_ret" /\ loc[t].tokens # <<>> =>
            LET n     == Len(loc[t].tokens)
                n_ctx == ctxs[g_ctx].n_ctx
            IN /\ n > n_ctx - 4 =>
                    /\ ret[t] = RetError("Prompt too long")
                    /\ loc[t].n_decode = 0 /\ loc[t].n_clear = 0
                    /\ ~g_is_generating
               /\ n <= n_ctx - 4 =>
                    /\ ret[t] # RetError("Prompt too long")
                    /\ loc[t].n_clear = 1 /\ loc[t].n_decode >= 1

\* the error was returned over a cache that still holds an earlier request
C7_Witness ==
    \E t \in Threads :
        /\ pc[t] = "generate_ret" /\ ret[t] = RetError("Prompt too long")
        /\ ctxs[g_ctx].kv # <<>>

\* C8: at most one call that takes the mutex is between its start and its
\* return, and it is the holder of the mutex.
C8_MutualExclusion ==
    /\ Cardinality(InCall) <= 1
    /\ \A t \in InCall : mutex = t

\* a call is inside generate() and no other thread can start unloadModel()
C8_Witness ==
    /\ \E t \in Threads : pc[t] = "generate_step"
    /\ \E u \in Threads : pc[u] = "idle"
    /\ \A u \in Threads : ~ENABLED unloadModel(u)

\* what stopGeneration() may change: g_stop_requested, to true
StopFrame ==
    /\ g_stop_requested' = TRUE
    /\ UNCHANGED <<mutex, g_model, g_ctx, g_params, g_is_generating,
                   backend_initialized, backend_up, models, ctxs, pc, ret>>

\* C9: a thread that is not inside a call can always complete
\* stopGeneration() and isGenerating(), whoever holds the mutex;
\* stopGeneration() sets g_stop_requested and changes nothing else of the
\* program, isGenerating() changes nothing.
C9_LockFree ==
    \A t \in Threads :
        Caller(t) =>
            /\ ENABLED stopGeneration(t)
            /\ ~ENABLED (stopGeneration(t) /\ ~StopFrame)
            /\ ENABLED isGenerating(t)
            /\ ~ENABLED (isGenerating(t) /\ ~UNCHANGED vars)

\* stopGeneration() has completed while generate() holds the mutex in its loop
C9_Witness ==
    /\ g_stop_requested
    /\ \E t \in Threads : pc[t] = "generate_step" /\ mutex = t

\* C10 as stated: whenever llama_decode fails, generate() returns the tokens
\* drawn so far, not an error.
C10_DecodeFailureReturnsTokens ==
    \A t \in Threads :
        pc[t] = "generate_ret" /\ loc[t].fail \in {"prefill", "step"} =>
            /\ ret[t] = RetText(loc[t].drawn, Pieces(loc[t].drawn))
            /\ IsLoaded(g_model, g_ctx)
            /\ ~g_is_generating

\* C10, amended: when the llama_decode of a drawn token fails, generate()
\* returns the text of exactly the tokens drawn so far, in order; when the
\* llama_decode of the prompt fails it returns the decode-failed error; in
\* both cases the session stays loaded and g_is_generating is false.
C10_StepFailureKeepsTokens ==
    \A t \in Threads :
        pc[t] = "generate_ret" =>
            /\ loc[t].fail = "step" =>
                  /\ ret[t] = RetText(loc[t].drawn, Pieces(loc[t].drawn))
                  /\ loc[t].drawn # <<>>
                  /\ g_model # Null /\ g_ctx # Null /\ ~g_is_generating
            /\ loc[t].fail = "prefill" =>
                  /\ ret[t] = RetError("Decode failed")
                  /\ loc[t].drawn = <<>>
                  /\ g_model # Null /\ g_ctx # Null /\ ~g_is_generating

\* the decode of the second of two different tokens failed
C10_Witness ==
    \E t \in Threads :
        /\ pc[t] = "generate_ret" /\ loc[t].fail = "step"
        /\ Len(loc[t].drawn) = 2 /\ loc[t].drawn[1] # loc[t].drawn[2]
        /\ ret[t].toks = loc[t].drawn

\* the generation loop is at a point where it has stopped / where it goes on
LoopStopped(t) == pc[t] = "generate_end"
LoopContinues(t) == pc[t] = "generate_step"
\* the four reasons to stop, as facts of the call so far: i has reached the
\* effective max_tokens, the last evaluation of line 306 read g_stop_requested
\* as true, the last token drawn was EOS, the last llama_decode failed
StopReasons(t) ==
    {r \in {"max_tokens", "stop_requested", "eos", "decode_failed"} :
        \/ r = "max_tokens" /\ loc[t].i >= loc[t].max_gen
        \/ r = "stop_requested" /\ loc[t].stop_read
        \/ r = "eos" /\ loc[t].eos_drawn
        \/ r = "decode_failed" /\ loc[t].fail = "step"}

\* C11: every generate() call that has set g_is_generating eventually
\* returns; its loop has stopped only when one of the four reasons holds
\* (max_tokens produced, g_stop_requested read as true at line 306, EOS drawn,
\* step decode failed) and goes on only when none of them holds.
C11_LoopStopsExactly ==
    /\ [](\A t \in Threads :
            /\ LoopStopped(t) => StopReasons(t) # {}
            /\ LoopContinues(t) => StopReasons(t) = {})
    /\ \A t \in Threads : (pc[t] \in GenPcs) ~> (pc[t] = "generate_ret")

\* the loop has stopped after one token because EOS was drawn, and for no
\* other reason
C11_Witness ==
    \E t \in Threads :
        /\ LoopStopped(t) /\ StopReasons(t) = {"eos"}
        /\ Len(loc[t].drawn) = 1

\* C12 as stated: a generate() of the reference request (temperature 0, fixed
\* prompt, every other parameter fixed) that meets no stop request and no
\* failed decode returns the tokens that the first such call on the same
\* loaded session returned, whatever ran in between.
C12_RepeatableAtTemperatureZero ==
    \A t \in Threads :
        pc[t] = "generate_ret" /\ ret[t].kind = "text" /\ IsReference(loc[t])
        /\ ctxs[g_ctx].first.set
            => ret[t].toks = ctxs[g_ctx].first.toks

C14_NeverDividesByZero ==
    \A t \in Threads :
        pc[t] = "getEmbedding_ret" /\ ret[t].kind = "vector" =>
            LET embd == loc[t].drawn
                v    == ret[t].vec
            IN /\ Len(v) = Len(embd)
               /\ \A k \in 1..Len(v) :
                     /\ v[k][2] # 0
                     /\ v[k][1] = embd[k]
                     /\ v[k][2] * v[k][2] = SumSquares(embd)

\* C15: the defaults of g_params are always usable (max_tokens, top_k, top_p,
\* n_threads and n_ctx positive, temperature not negative); in generate() each
\* value used after line 299 is the argument when that is positive (for the
\* temperature: not negative) and the current default otherwise (so it is
\* usable too); a context created by loadModel() has the nCtx and nThreads
\* arguments when positive and the defaults at the call otherwise.
C15_EffectiveParams ==
    /\ g_params.max_tokens > 0 /\ g_params.top_k > 0 /\ g_params.top_p > 0
    /\ g_params.temperature >= 0 /\ g_params.n_threads > 0 /\ g_params.n_ctx > 0
    /\ \A t \in Threads :
          pc[t] \in {"generate_loop", "generate_step", "generate_end"} =>
              LET l == loc[t]
                  a == l.args
              IN /\ l.max_gen = (IF a.maxTokens > 0 THEN a.maxTokens
                                                     ELSE g_params.max_tokens)
                 /\ l.temp = (IF a.temperature >= 0 THEN a.temperature
                                                     ELSE g_params.temperature)
                 /\ l.top_p_val = (IF a.topP > 0 THEN a.topP ELSE g_params.top_p)
                 /\ l.top_k_val = (IF a.topK > 0 THEN a.topK ELSE g_params.top_k)
                 /\ l.max_gen > 0 /\ l.top_k_val > 0 /\ l.top_p_val > 0
                 /\ l.temp >= 0
    /\ \A t \in Threads :
          pc[t] = "loadModel_ret" /\ ret[t].b =>
              LET l == loc[t]
              IN /\ ctxs[g_ctx].n_ctx =
                       (IF l.nCtx > 0 THEN l.nCtx ELSE l.params0.n_ctx)
                 /\ ctxs[g_ctx].n_threads =
                       (IF l.nThreads > 0 THEN l.nThreads ELSE l.params0.n_threads)
                 /\ ctxs[g_ctx].n_ctx > 0 /\ ctxs[g_ctx].n_threads > 0
                 /\ g_params.n_ctx = ctxs[g_ctx].n_ctx
                 /\ g_params.n_threads = ctxs[g_ctx].n_threads

\* generate() runs with sentinel arguments on defaults that setDefaultParams()
\* has changed
C15_Witness ==
    \E t \in Threads :
        /\ pc[t] = "generate_step" /\ loc[t].args = Sentinels
        /\ loc[t].max_gen = MaxGen /\ loc[t].temp = 0
        /\ g_params # GenerationParams

\* the engine calls of a trace with the given name, in order
CallsOf(calls, op) == SelectSeq(calls, LAMBDA e : e.op = op)
\* the tokens llama_sample_token returned, in the order it returned them
Draws(calls) ==
    LET d == CallsOf(calls, "llama_sample_token")
    IN [k \in 1..Len(d) |-> d[k].arg]
\* the batches given to llama_decode after the prompt's, in order
StepDecodes(calls) == Tail(CallsOf(calls, "llama_decode"))

\* C16: in a generate() call every llama_sample_token is preceded, with no
\* other engine call in between, by llama_get_logits, llama_sample_top_k,
\* llama_sample_top_p and llama_sample_temp in that order, once each, with
\* the effective top_k, top_p and temperature, and the engine call before
\* those is a successful llama_decode of the same generate() call; there is
\* one such group per token drawn and no other sampling call.  The engine is
\* called with nothing but the prompt's tokens, those three values and the
\* drawn tokens, so repeat_penalty reaches no engine call.
C16_SamplingOrder ==
    \A t \in Threads :
        LET l == loc[t]
            c == l.calls
            n == Len(c)
        IN /\ \A j \in 1..n :
                 /\ c[j].op \in {"llama_kv_cache_clear", "llama_decode",
                                 "llama_get_logits", "llama_sample_top_k",
                                 "llama_sample_top_p", "llama_sample_temp",
                                 "llama_sample_token"}
                 /\ c[j].op = "llama_sample_token" =>
                       /\ j > 5
                       /\ c[j - 1].op = "llama_sample_temp" /\ c[j - 1].arg = l.temp
                       /\ c[j - 2].op = "llama_sample_top_p"
                       /\ c[j - 2].arg = l.top_p_val
                       /\ c[j - 3].op = "llama_sample_top_k"
                       /\ c[j - 3].arg = l.top_k_val
                       /\ c[j - 4].op = "llama_get_logits"
                       /\ c[j - 5].op = "llama_decode" /\ c[j - 5].ok
                 /\ c[j].op = "llama_get_logits" =>
                       j + 4 <= n /\ c[j + 4].op = "llama_sample_token"
                 /\ c[j].op = "llama_sample_top_k" =>
                       j + 3 <= n /\ c[j + 3].op = "llama_sample_token"
                 /\ c[j].op = "llama_sample_top_p" =>
                       j + 2 <= n /\ c[j + 2].op = "llama_sample_token"
                 /\ c[j].op = "llama_sample_temp" =>
                       j + 1 <= n /\ c[j + 1].op = "llama_sample_token"
                 /\ c[j].op \in {"llama_kv_cache_clear", "llama_get_logits"} =>
                       c[j].arg = 0 /\ c[j].batch = <<>>
                 /\ c[j].op = "llama_decode" => c[j].arg = 0
           /\ pc[t] \in GenPcs \cup {"generate_ret"} =>
                 /\ Len(Draws(c)) = Len(l.drawn) + (IF l.eos_drawn THEN 1 ELSE 0)
                 /\ SubSeq(Draws(c), 1, Len(l.drawn)) = l.drawn

\* two tokens were drawn in a call whose repeat_penalty is not the default
C16_Witness ==
    \E t \in Threads :
        /\ pc[t] = "generate_end" /\ Len(Draws(loc[t].calls)) = 2
        /\ loc[t].rep_pen # GenerationParams.repeat_penalty
        /\ loc[t].top_k_val # GenerationParams.top_k

\* C17: in a generate() call on a prompt of n tokens the first llama_decode
\* gets the n prompt tokens at positions 0..n-1 with logits wanted at n-1
\* only, and the k-th later llama_decode (k = 0, 1, ...) gets exactly the
\* k-th drawn token at position n+k with logits wanted; n_cur is n plus the
\* number of successful step decodes.
C17_ContiguousPositions ==
    \A t \in Threads :
        LET l     == loc[t]
            d     == CallsOf(l.calls, "llama_decode")
            n     == Len(l.tokens)
            steps == StepDecodes(l.calls)
        IN d # <<>> =>
            /\ Len(d[1].batch) = n
            /\ \A k \in 1..n :
                  /\ d[1].batch[k].token = l.tokens[k]
                  /\ d[1].batch[k].pos = k - 1
                  /\ d[1].batch[k].logits = (k - 1 = n - 1)
            /\ \A k \in 1..Len(steps) :
                  /\ Len(steps[k].batch) = 1
                  /\ steps[k].batch[1].token = Draws(l.calls)[k]
                  /\ steps[k].batch[1].pos = n + (k - 1)
                  /\ steps[k].batch[1].logits
                  /\ k < Len(steps) => steps[k].ok
            /\ pc[t] \in {"generate_loop", "generate_step", "generate_end"} =>
                  l.n_cur = n + Len(SelectSeq(steps, LAMBDA e : e.ok))

\* a prompt of more than one token and two step decodes, the second failed
C17_Witness ==
    \E t \in Threads :
        /\ pc[t] = "generate_end" /\ Len(loc[t].tokens) > 1
        /\ Len(StepDecodes(loc[t].calls)) = 2
        /\ ~StepDecodes(loc[t].calls)[2].ok

\* C18: the tokens of a generate() call that returns text are at most the
\* effective max_tokens, are the tokens llama_sample_token returned, in that
\* order (EOS, which ends the call, left out), hold no EOS, and are at least
\* as many as the llama_decode calls after the prompt's.
C18_ReturnedTokens ==
    \A t \in Threads :
        pc[t] = "generate_ret" /\ ret[t].kind = "text" =>
            LET l      == loc[t]
                toks   == ret[t].toks
                max    == IF l.args.maxTokens > 0 THEN l.args.maxTokens
                                                  ELSE g_params.max_tokens
                draws  == Draws(l.calls)
            IN /\ Len(toks) <= max
               /\ toks = SelectSeq(draws, LAMBDA x : x # EosId)
               /\ \A k \in 1..Len(draws) : draws[k] = EosId => k = Len(draws)
               /\ \A k \in 1..Len(toks) : toks[k] # EosId
               /\ Len(StepDecodes(l.calls)) <= Len(toks)
               /\ l.n_decode - 1 = Len(StepDecodes(l.calls))

\* a call has returned exactly max_tokens tokens, all decoded
C18_Witness ==
    \E t \in Threads :
        /\ pc[t] = "generate_ret" /\ ret[t].kind = "text"
        /\ Len(ret[t].toks) = MaxGen /\ loc[t].max_gen = MaxGen
        /\ Len(StepDecodes(loc[t].calls)) = MaxGen
        /\ loc[t].fail = "none"

\* the points of generate() and getEmbedding() from which the next step
\* gives g_model or g_ctx to the engine (tokenize, decode, the sampling
\* calls, get_logits, get_embeddings, token_to_piece)
EnginePcs == {"generate_clear", "generate_step", "generate_end",
              "getEmbedding_decode"}

\* C19: whenever g_is_generating is true, a generate() call holds the mutex
\* and g_model and g_ctx are non-null; a handle that is not null is live in
\* the engine (never freed) and the context is one of the model; wherever
\* generate() or getEmbedding() is about to call the engine both handles are
\* non-null; and tokenize()/detokenize() have produced tokens or text only
\* with a live model.
C19_HandlesValid ==
    /\ g_is_generating =>
          /\ \E t \in Threads : pc[t] \in GenPcs /\ mutex = t
          /\ g_model # Null /\ g_ctx # Null
    /\ g_model # Null => g_model \in DOMAIN models
    /\ g_ctx # Null => g_ctx \in DOMAIN ctxs /\ ctxs[g_ctx].model = g_model
    /\ \A t \in Threads :
          /\ pc[t] \in EnginePcs =>
                /\ mutex = t
                /\ g_model \in DOMAIN models /\ g_ctx \in DOMAIN ctxs
          /\ pc[t] = "tokenize_ret" /\ ret[t].n >= 0 => g_model \in DOMAIN models
          /\ pc[t] = "detokenize_ret" /\ ret[t].toks # <<>> =>
                g_model \in DOMAIN models

\* generate() is in its loop with the prompt decoded, a stop has been
\* requested meanwhile, and no thread can start freeBackend()
C19_Witness ==
    /\ g_is_generating /\ g_stop_requested
    /\ \E t \in Threads : pc[t] = "generate_step" /\ ctxs[g_ctx].kv # <<>>
    /\ \A u \in Threads : ~ENABLED freeBackend(u)

\* C20 as stated: whenever loadModel() has called llama_load_model_from_file
\* the backend is up (initialised and not freed since), and
\* llama_backend_init is never called on a backend that is up.
C20_BackendUpAtLoad ==
    \A t \in Threads :
        /\ pc[t] \in {"loadModel_context", "loadModel_ret"} => backend_up
        /\ ~loc[t].reinit

====
